---- MODULE Spec2Model ----
(***************************************************************************)
(* State-machine model of the script interpreter of 07_cstack:             *)
(* main (src/src/main.rs) and parse_file (src/src/parser.rs).              *)
(*                                                                         *)
(* A script line is modelled by the sequence of tokens that                *)
(* `line.split(' ')` yields for it (splitting on single spaces and joining *)
(* with single spaces are inverse to each other, so a line and its token   *)
(* sequence determine each other).  f32 values are modelled by exact       *)
(* rationals <<numerator, denominator>>.  The matrix, tessellation and     *)
(* canvas modules are not part of the available sources: their operators   *)
(* follow the specification document (sections 4.1 - 4.4).                 *)
(***************************************************************************)
EXTENDS Integers, Sequences, FiniteSets, TLC

(***************************************************************************)
(* Bounds of the model.                                                    *)
(***************************************************************************)
\* number of command blocks of a general script (after its prelude)
MaxCmds == 2
\* number of command blocks of a transform script
MaxXformCmds == 4

(***************************************************************************)
(* Exact rational arithmetic (the values of f32 numbers).                  *)
(***************************************************************************)
Abs(n) == IF n < 0 THEN -n ELSE n

RECURSIVE GCD(_, _)
GCD(a, b) == IF b = 0 THEN a ELSE GCD(b, a % b)

Norm(n, d) ==
    IF n = 0 THEN <<0, 1>>
    ELSE LET g == GCD(Abs(n), Abs(d))
             s == IF d < 0 THEN -1 ELSE 1
         IN  <<(s * n) \div g, (s * d) \div g>>

Rat(n) == <<n, 1>>
Zero == <<0, 1>>
One == <<1, 1>>
RAdd(a, b) == IF a[2] = 1 /\ b[2] = 1 THEN <<a[1] + b[1], 1>>
              ELSE Norm(a[1] * b[2] + b[1] * a[2], a[2] * b[2])
RMul(a, b) == IF a[2] = 1 /\ b[2] = 1 THEN <<a[1] * b[1], 1>>
              ELSE Norm(a[1] * b[1], a[2] * b[2])
RNeg(a) == <<-a[1], a[2]>>
RSub(a, b) == RAdd(a, RNeg(b))
\* nearest integer, halves rounded up
RRound(a) == (2 * a[1] + a[2]) \div (2 * a[2])

(***************************************************************************)
(* Tokens and str::parse.                                                  *)
(***************************************************************************)
\* tokens that str::parse::<f32> accepts, with their values
F32Val ==
    [tok \in {"0", "1", "2", "3", "1.5", "90"} |->
        CASE tok = "0" -> Rat(0)
          [] tok = "1" -> Rat(1)
          [] tok = "2" -> Rat(2)
          [] tok = "3" -> Rat(3)
          [] tok = "1.5" -> <<3, 2>>
          [] tok = "90" -> Rat(90)]

\* tokens that str::parse of an integer type accepts
IntTokens == {"0", "1", "2", "3", "90"}

F32Tokens == DOMAIN F32Val

ParsesF32(tok) == tok \in F32Tokens

\* tokens whose first character is '#'
HashTokens == {"#", "#c"}

\* str::starts_with('#') of a line
StartsWithHash(line) == line[1] \in HashTokens

(***************************************************************************)
(* Matrix: a sequence of columns, each column a point <<x, y, z, w>>.      *)
(***************************************************************************)
MatrixNew(rows, cols) == [c \in 1..cols |-> [r \in 1..rows |-> Zero]]

Identity(m) ==
    [c \in 1..Len(m) |-> [r \in 1..Len(m[c]) |-> IF r = c THEN One ELSE Zero]]

\* the product m * v of a 4x4 matrix and a column
MatVec(m, v) ==
    [r \in 1..4 |->
        RAdd(RAdd(RMul(m[1][r], v[1]), RMul(m[2][r], v[2])),
             RAdd(RMul(m[3][r], v[3]), RMul(m[4][r], v[4])))]

\* self.multiply_matrixes(&other): self becomes other * self
MultiplyMatrixes(self, other) ==
    [k \in 1..Len(self) |-> MatVec(other, self[k])]

MakeScale(sx, sy, sz) ==
    << <<sx, Zero, Zero, Zero>>, <<Zero, sy, Zero, Zero>>,
       <<Zero, Zero, sz, Zero>>, <<Zero, Zero, Zero, One>> >>

MakeTranslate(tx, ty, tz) ==
    << <<One, Zero, Zero, Zero>>, <<Zero, One, Zero, Zero>>,
       <<Zero, Zero, One, Zero>>, <<tx, ty, tz, One>> >>

\* 4 * cos(2 * pi * k / 200), rounded to the nearest integer, k = 0 .. 199
CosTable ==
    <<4, 4, 4, 4, 4, 4, 4, 4, 4, 4, 4, 4, 4, 4, 4, 4, 4, 3, 3, 3,
      3, 3, 3, 3, 3, 3, 3, 3, 3, 2, 2, 2, 2, 2, 2, 2, 2, 2, 1, 1,
      1, 1, 1, 1, 1, 1, 1, 0, 0, 0, 0, 0, 0, 0, -1, -1, -1, -1, -1, -1,
      -1, -1, -1, -2, -2, -2, -2, -2, -2, -2, -2, -2, -3, -3, -3, -3, -3, -3, -3, -3,
      -3, -3, -3, -3, -4, -4, -4, -4, -4, -4, -4, -4, -4, -4, -4, -4, -4, -4, -4, -4,
      -4, -4, -4, -4, -4, -4, -4, -4, -4, -4, -4, -4, -4, -4, -4, -4, -4, -3, -3, -3,
      -3, -3, -3, -3, -3, -3, -3, -3, -3, -2, -2, -2, -2, -2, -2, -2, -2, -2, -1, -1,
      -1, -1, -1, -1, -1, -1, -1, 0, 0, 0, 0, 0, 0, 0, 1, 1, 1, 1, 1, 1,
      1, 1, 1, 2, 2, 2, 2, 2, 2, 2, 2, 2, 3, 3, 3, 3, 3, 3, 3, 3,
      3, 3, 3, 3, 4, 4, 4, 4, 4, 4, 4, 4, 4, 4, 4, 4, 4, 4, 4, 4>>

\* cosine and sine of an angle given in units of 2 * pi / 200
CosU(k) == Norm(CosTable[(k % 200) + 1], 4)
SinU(k) == CosU(k + 150)

\* an angle in degrees, in units of 2 * pi / 200 (to the nearest unit)
DegToU(theta) == RRound(RMul(theta, <<5, 9>>)) % 200

MakeRotX(theta) ==
    LET c == CosU(DegToU(theta))
        s == SinU(DegToU(theta))
    IN  << <<One, Zero, Zero, Zero>>, <<Zero, c, s, Zero>>,
           <<Zero, RNeg(s), c, Zero>>, <<Zero, Zero, Zero, One>> >>

MakeRotY(theta) ==
    LET c == CosU(DegToU(theta))
        s == SinU(DegToU(theta))
    IN  << <<c, Zero, RNeg(s), Zero>>, <<Zero, One, Zero, Zero>>,
           <<s, Zero, c, Zero>>, <<Zero, Zero, Zero, One>> >>

MakeRotZ(theta) ==
    LET c == CosU(DegToU(theta))
        s == SinU(DegToU(theta))
    IN  << <<c, s, Zero, Zero>>, <<RNeg(s), c, Zero, Zero>>,
           <<Zero, Zero, One, Zero>>, <<Zero, Zero, Zero, One>> >>

AddPoint(m, x, y, z) == Append(m, <<x, y, z, One>>)

AddEdge(m, x0, y0, z0, x1, y1, z1) ==
    AddPoint(AddPoint(m, x0, y0, z0), x1, y1, z1)

(***************************************************************************)
(* Tessellation (specification section 4.3).  Angles are taken in units of *)
(* 2 * pi / 200, so that the circle's 100 steps and the solids' 20 steps   *)
(* fall on whole units.                                                    *)
(***************************************************************************)
\* sample k of the circle, k = 0 .. steps (sample steps is sample 0 again)
CirclePoint(cx, cy, cz, r, steps, k) ==
    LET u == (200 * (k % steps)) \div steps
    IN  <<RAdd(cx, RMul(r, CosU(u))), RAdd(cy, RMul(r, SinU(u))), cz, One>>

AddCircle(m, cx, cy, cz, r, steps) ==
    m \o [k \in 1..(2 * steps) |->
            CirclePoint(cx, cy, cz, r, steps, ((k - 1) \div 2) + ((k - 1) % 2))]

\* a * t^3 + b * t^2 + c * t + d
Cubic(a, b, c, d, t) == RAdd(RMul(RAdd(RMul(RAdd(RMul(a, t), b), t), c), t), d)

\* coefficients <<a, b, c, d>> of one coordinate of a curve
HermiteCoefs(p0, p1, r0, r1) ==
    << RAdd(RAdd(RMul(Rat(2), p0), RMul(Rat(-2), p1)), RAdd(r0, r1)),
       RAdd(RAdd(RMul(Rat(-3), p0), RMul(Rat(3), p1)),
            RAdd(RMul(Rat(-2), r0), RNeg(r1))),
       r0,
       p0 >>

BezierCoefs(p0, p1, p2, p3) ==
    << RAdd(RAdd(RNeg(p0), RMul(Rat(3), p1)), RAdd(RMul(Rat(-3), p2), p3)),
       RAdd(RAdd(RMul(Rat(3), p0), RMul(Rat(-6), p1)), RMul(Rat(3), p2)),
       RAdd(RMul(Rat(-3), p0), RMul(Rat(3), p1)),
       p0 >>

\* add_curve(x0, y0, x1, y1, x2, y2, x3, y3, steps, type)
AddCurve(m, x0, y0, x1, y1, x2, y2, x3, y3, steps, type) ==
    LET cx == IF type = "Hermite" THEN HermiteCoefs(x0, x1, x2, x3)
              ELSE BezierCoefs(x0, x1, x2, x3)
        cy == IF type = "Hermite" THEN HermiteCoefs(y0, y1, y2, y3)
              ELSE BezierCoefs(y0, y1, y2, y3)
        Sample(k) ==
            LET t == Norm(k, steps)
            IN  <<Cubic(cx[1], cx[2], cx[3], cx[4], t),
                  Cubic(cy[1], cy[2], cy[3], cy[4], t), Zero, One>>
    IN  m \o [k \in 1..(2 * steps) |-> Sample(((k - 1) \div 2) + ((k - 1) % 2))]

\* the 12 triangles of the box, as corner numbers: corner c has
\* x = x0 or x1 by bit 0 of c, y by bit 1, z by bit 2
BoxFaces ==
    << <<0, 2, 3>>, <<0, 3, 1>>,     \* front  (z = z0)
       <<5, 7, 6>>, <<5, 6, 4>>,     \* back   (z = z1)
       <<1, 3, 7>>, <<1, 7, 5>>,     \* right  (x = x1)
       <<4, 6, 2>>, <<4, 2, 0>>,     \* left   (x = x0)
       <<4, 0, 1>>, <<4, 1, 5>>,     \* top    (y = y0)
       <<2, 6, 7>>, <<2, 7, 3>> >>   \* bottom (y = y1)

AddBox(m, x, y, z, width, height, depth) ==
    LET x1 == RAdd(x, width)
        y1 == RSub(y, height)
        z1 == RSub(z, depth)
        Corner(c) == << IF c % 2 = 1 THEN x1 ELSE x,
                        IF (c \div 2) % 2 = 1 THEN y1 ELSE y,
                        IF (c \div 4) % 2 = 1 THEN z1 ELSE z, One >>
    IN  m \o [k \in 1..36 |-> Corner(BoxFaces[((k - 1) \div 3) + 1][((k - 1) % 3) + 1])]

\* the corner of grid cell (rot, circ) used by vertex v of triangle tri (0, 1)
\* of that cell, as <<rot offset, circ offset>>
CellCorner(tri, v) ==
    IF tri = 0 THEN << <<0, 0>>, <<0, 1>>, <<1, 1>> >>[v + 1]
    ELSE << <<0, 0>>, <<1, 1>>, <<1, 0>> >>[v + 1]

SpherePoint(cx, cy, cz, r, steps, rot, circ) ==
    LET phi == (200 * (rot % steps)) \div steps
        theta == (100 * circ) \div steps
    IN  << RAdd(cx, RMul(r, CosU(theta))),
           RAdd(cy, RMul(r, RMul(SinU(theta), CosU(phi)))),
           RAdd(cz, RMul(r, RMul(SinU(theta), SinU(phi)))), One >>

\* steps * steps grid cells, two triangles each
AddSphere(m, cx, cy, cz, r, steps) ==
    m \o [k \in 1..(6 * steps * steps) |->
            LET t == (k - 1) \div 3
                o == CellCorner(t % 2, (k - 1) % 3)
                cell == t \div 2
            IN  SpherePoint(cx, cy, cz, r, steps,
                            (cell \div steps) + o[1], (cell % steps) + o[2])]

TorusPoint(cx, cy, cz, r1, r2, steps, rot, circ) ==
    LET phi == (200 * (rot % steps)) \div steps
        theta == (200 * (circ % steps)) \div steps
        d == RAdd(RMul(r1, CosU(theta)), r2)
    IN  << RAdd(cx, RMul(CosU(phi), d)),
           RAdd(cy, RMul(r1, SinU(theta))),
           RAdd(cz, RNeg(RMul(SinU(phi), d))), One >>

AddTorus(m, cx, cy, cz, r1, r2, steps) ==
    m \o [k \in 1..(6 * steps * steps) |->
            LET t == (k - 1) \div 3
                o == CellCorner(t % 2, (k - 1) % 3)
                cell == t \div 2
            IN  TorusPoint(cx, cy, cz, r1, r2, steps,
                           (cell \div steps) + o[1], (cell % steps) + o[2])]

(***************************************************************************)
(* Canvas (specification section 4.4): the set of pixels <<x, y>> painted  *)
(* in the foreground color; every other pixel has the background color.    *)
(***************************************************************************)
\* Image::new(500, 500)
XRES == 500
YRES == 500

Min(a, b) == IF a < b THEN a ELSE b
Max(a, b) == IF a > b THEN a ELSE b

\* nearest integer to n / d, d > 0
DivRound(n, d) == (2 * n + d) \div (2 * d)

\* the pixels of the line from (x0, y0) to (x1, y1) that lie on the canvas
LinePixels(x0, y0, x1, y1) ==
    LET dx == x1 - x0
        dy == y1 - y0
    IN  IF Abs(dx) >= Abs(dy)
        THEN IF dx = 0
             THEN {p \in {<<x0, y0>>} : x0 >= 0 /\ x0 < XRES /\ y0 >= 0 /\ y0 < YRES}
             ELSE {p \in {<<x, y0 + DivRound((x - x0) * dy * (IF dx < 0 THEN -1 ELSE 1), Abs(dx))>> :
                            x \in Max(Min(x0, x1), 0)..Min(Max(x0, x1), XRES - 1)} :
                        p[2] >= 0 /\ p[2] < YRES}
        ELSE {p \in {<<x0 + DivRound((y - y0) * dx * (IF dy < 0 THEN -1 ELSE 1), Abs(dy)), y>> :
                            y \in Max(Min(y0, y1), 0)..Min(Max(y0, y1), YRES - 1)} :
                        p[1] >= 0 /\ p[1] < XRES}

\* screen.clear()
ClearScreen(scr) == {}

\* screen.draw_lines(&points, color)
DrawLines(scr, m) ==
    scr \cup UNION {LinePixels(RRound(m[2 * e - 1][1]), RRound(m[2 * e - 1][2]),
                               RRound(m[2 * e][1]), RRound(m[2 * e][2])) :
                        e \in 1..(Len(m) \div 2)}

\* twice the signed area of the triangle a, b, c (rational coordinates)
Area2(a, b, c) ==
    RSub(RMul(RSub(b[1], a[1]), RSub(c[2], a[2])),
         RMul(RSub(b[2], a[2]), RSub(c[1], a[1])))

\* integer edge function: > 0 when p is left of the line from a to b
EdgeFn(a, b, p) == (b[1] - a[1]) * (p[2] - a[2]) - (b[2] - a[2]) * (p[1] - a[1])

\* the pixels of the filled triangle with integer corners a, b, c
FillPixels(a, b, c) ==
    LET s == EdgeFn(a, b, c)
    IN  IF s = 0 THEN {}
        ELSE {p \in (Max(Min(a[1], Min(b[1], c[1])), 0)..
                     Min(Max(a[1], Max(b[1], c[1])), XRES - 1)) \X
                    (Max(Min(a[2], Min(b[2], c[2])), 0)..
                     Min(Max(a[2], Max(b[2], c[2])), YRES - 1)) :
                 /\ s * EdgeFn(a, b, p) >= 0
                 /\ s * EdgeFn(b, c, p) >= 0
                 /\ s * EdgeFn(c, a, p) >= 0}

\* screen.draw_polygons(&polygons, color): triangles facing the viewer only
DrawPolygons(scr, m) ==
    scr \cup UNION {
        LET a == m[3 * t - 2]
            b == m[3 * t - 1]
            c == m[3 * t]
        IN  IF Area2(a, b, c)[1] > 0
            THEN FillPixels(<<RRound(a[1]), RRound(a[2])>>,
                            <<RRound(b[1]), RRound(b[2])>>,
                            <<RRound(c[1]), RRound(c[2])>>)
            ELSE {} : t \in 1..(Len(m) \div 3)}

(***************************************************************************)
(* Script lines.                                                           *)
(***************************************************************************)
\* the line whose whole text is the word k
KW(k) == <<k>>

\* the literal arms of the match in parse_file, in the order of the source
ArmsBeforeComment ==
    {KW("line"), KW("ident"), KW("scale"), KW("translate"), KW("move"),
     KW("rotate"), KW("apply"), KW("display"), KW("save"), KW("quit"),
     KW("circle"), KW("hermite"), KW("bezier")}
ArmsAfterComment == {KW("clear"), KW("box"), KW("sphere"), KW("torus")}
Keywords == ArmsBeforeComment \cup ArmsAfterComment

\* argument lines
Args3 == <<"2", "2", "2">>
Args3Real == <<"1.5", "1", "1">>
Args3Bad == <<"2", "a", "2">>
Move3 == <<"1", "2", "0">>
Move3Real == <<"1.5", "0", "0">>
Args4 == <<"2", "2", "0", "1">>
Args5 == <<"3", "3", "0", "1", "2">>
Args6 == <<"0", "0", "0", "1", "0", "0">>
Args7 == <<"0", "0", "0", "1", "0", "0", "3">>
Box6 == <<"0", "2", "0", "2", "2", "2">>
Args8 == <<"0", "0", "3", "0", "1", "2", "2", "1">>
FileName == <<"a.png">>

\* command blocks of the general scripts: a command line with its argument
\* line, well-formed or not, or a single line
Blocks ==
    { <<KW("line"), Args6>>, <<KW("line"), Args7>>, <<KW("line"), Args5>>,
      <<KW("line")>>,
      <<KW("ident")>>,
      <<KW("scale"), Args3>>, <<KW("scale"), Args3Real>>, <<KW("scale"), Args3Bad>>,
      <<KW("translate"), Move3>>, <<KW("move"), Move3>>,
      <<KW("translate"), Move3Real>>,
      <<KW("rotate"), <<"x", "90">>>>, <<KW("rotate"), <<"y", "90">>>>,
      <<KW("rotate"), <<"z", "90", "a">>>>, <<KW("rotate"), <<"q", "90">>>>,
      <<KW("rotate"), <<"x">>>>,
      <<KW("apply")>>, <<KW("display")>>,
      <<KW("save"), FileName>>, <<KW("save")>>,
      <<KW("quit")>>,
      <<KW("clear")>>,
      <<KW("box"), Box6>>, <<KW("box"), Args7>>, <<KW("box"), Args5>>,
      <<<<"#c">>>>, <<<<"foo">>>> }

\* what a general script starts with: nothing, or a non-trivial transform
\* and geometry in both stores
Preludes ==
    { <<>>,
      <<KW("ident"), KW("scale"), Args3, KW("line"), Args6, KW("box"), Box6>> }

\* command blocks of the transform scripts
XformBlocks ==
    { <<KW("ident")>>, <<KW("scale"), Args3>>, <<KW("translate"), Move3>>,
      <<KW("rotate"), <<"z", "90">>>>, <<KW("apply")>> }

XformHead == <<KW("line"), <<"1", "0", "0", "3", "2", "0">>, KW("box"), Box6>>

RECURSIVE Flatten(_)
Flatten(bs) == IF bs = <<>> THEN <<>> ELSE Head(bs) \o Flatten(Tail(bs))

SeqsUpTo(S, n) == UNION {[1..k -> S] : k \in 0..n}

\* the curve and solid commands, each with a well-formed argument line, one
\* with a value too many, one with a value too few and one with a word
TessBlocks ==
    { <<kw, a>> : kw \in {KW("circle"), KW("sphere")},
                  a \in {Args4, Args5, <<"2", "2", "0">>, <<"2", "2", "0", "a">>} }
    \cup { <<KW("torus"), a>> : a \in {Args5, Args6, Args4, <<"3", "3", "0", "a", "2">>} }
    \cup { <<kw, a>> : kw \in {KW("hermite"), KW("bezier")},
                       a \in {Args8, Args8 \o <<"1">>, Args7, Args7 \o <<"a">>} }

\* what follows a curve or solid command in a script
TessTails ==
    { <<>>, <<KW("apply")>>, <<KW("display")>>, <<KW("clear")>>,
      <<KW("save"), FileName>>, <<KW("line"), Args6>>, <<KW("box"), Box6>>,
      <<KW("quit"), <<"foo">>>> }

\* scripts that present the canvas twice, with the stores changed in between
RedrawShows == { <<KW("display")>>, <<KW("save"), FileName>> }

RedrawMids ==
    { <<>>, <<KW("clear")>>, <<KW("apply")>>,
      <<KW("translate"), Move3, KW("apply")>>,
      <<KW("line"), <<"1", "0", "0", "3", "2", "0">>>> }

RedrawHead ==
    <<KW("ident"), KW("scale"), Args3, KW("line"), Args6, KW("box"), Box6>>

RedrawScripts ==
    {RedrawHead \o d1 \o m \o d2 :
        d1 \in RedrawShows, m \in RedrawMids, d2 \in RedrawShows}

Scripts ==
    {p \o Flatten(bs) : p \in Preludes, bs \in SeqsUpTo(Blocks, MaxCmds)}
    \cup {XformHead \o Flatten(bs) : bs \in SeqsUpTo(XformBlocks, MaxXformCmds)}
    \cup {<<KW("ident")>> \o b \o t : b \in TessBlocks, t \in TessTails}
    \cup RedrawScripts

(***************************************************************************)
(* State.                                                                  *)
(***************************************************************************)
VARIABLES
    scriptFile,   \* the script file: whether it can be opened, and its lines
    doc_lines,    \* parse_file: the lines read from the script
    i,            \* parse_file: the line cursor (0-based, as in the source)
    points,       \* main: edges
    polygons,     \* main: polygons
    transform,    \* main: transform
    screen,       \* main: screen
    status,       \* "start", "running", "serializing", "exited", "panicked"
    result,       \* what parse_file returned: "none", "Ok", "Err"
    diag,         \* the panic message of the run, NoDiag when there is none
    writing,      \* the path create_file is writing, NoPath when none
    files,        \* the files written by create_file: path -> canvas
    converters,   \* the converter processes spawned, in spawn order
    shown,        \* the canvases presented by screen.display()
    lastCmd,      \* the cursor at the head of the latest loop iteration
    xforms,       \* the elementary transforms composed so far, in order
    identAt       \* Len(xforms) at the latest ident command, -1 before it

vars == <<scriptFile, doc_lines, i, points, polygons, transform, screen, status,
          result, diag, writing, files, converters, shown, lastCmd, xforms,
          identAt>>

NoDiag == [kind |-> "none", token |-> <<>>, line |-> 0]
NoPath == <<>>

\* panic!("Invalid command {} at line {}.", doc_lines[i], i + 1)
InvalidCommandDiag(line, n) == [kind |-> "InvalidCommand", token |-> line, line |-> n]
\* panic!("Invalid input {} at 0 for rotation: please use x, y, or z.", params[0])
InvalidAxisDiag(tok) == [kind |-> "InvalidAxis", token |-> <<tok>>, line |-> 0]
\* Result::unwrap() on the Err of str::parse
UnwrapDiag == [kind |-> "ParseError", token |-> <<>>, line |-> 0]
\* index out of bounds on doc_lines[i] or params[k]
IndexDiag == [kind |-> "IndexOutOfBounds", token |-> <<>>, line |-> 0]
\* .expect("failed to convert image to desired format")
SpawnDiag == [kind |-> "SpawnFailed", token |-> <<>>, line |-> 0]

Init ==
    /\ scriptFile \in [exists : {TRUE}, lines : Scripts]
                      \cup {[exists |-> FALSE, lines |-> <<>>]}
    /\ doc_lines = <<>>
    /\ i = 0
    /\ points = MatrixNew(0, 0)
    /\ polygons = MatrixNew(0, 0)
    /\ transform = MatrixNew(4, 4)
    /\ screen = {}
    /\ status = "start"
    /\ result = "none"
    /\ diag = NoDiag
    /\ writing = NoPath
    /\ files = <<>>
    /\ converters = <<>>
    /\ shown = <<>>
    /\ lastCmd = -1
    /\ xforms = <<>>
    /\ identAt = -1

(***************************************************************************)
(* parse_file: what one iteration of the loop leaves behind, as a record   *)
(* of the values it assigns.                                               *)
(***************************************************************************)
\* an iteration that changes nothing but the cursor
Keep(next) ==
    [i |-> next, status |-> "running", result |-> result, diag |-> diag,
     points |-> points, polygons |-> polygons, transform |-> transform,
     screen |-> screen, writing |-> writing, files |-> files,
     converters |-> converters, shown |-> shown, xforms |-> xforms,
     identAt |-> identAt]

\* an iteration that panics with the cursor at `at`
Panicked(at, d) == [Keep(at) EXCEPT !.status = "panicked", !.diag = d]

Commit(r) ==
    /\ i' = r.i
    /\ status' = r.status
    /\ result' = r.result
    /\ diag' = r.diag
    /\ points' = r.points
    /\ polygons' = r.polygons
    /\ transform' = r.transform
    /\ screen' = r.screen
    /\ writing' = r.writing
    /\ files' = r.files
    /\ converters' = r.converters
    /\ shown' = r.shown
    /\ xforms' = r.xforms
    /\ identAt' = r.identAt
    /\ UNCHANGED <<scriptFile, doc_lines>>

\* the loop is at a line whose text is `line`
Dispatch(line) ==
    /\ status = "running"
    /\ i < Len(doc_lines)
    /\ doc_lines[i + 1] = line
    /\ lastCmd' = i

\* i += 1; every token of doc_lines[i].split(' ') pushed through
\* parse().unwrap(); params[0] .. params[arity - 1] read: the panic this
\* ends in, NoDiag when the command's call is reached
ArgFault(accepted, arity) ==
    IF i + 1 >= Len(doc_lines) THEN IndexDiag
    ELSE LET a == doc_lines[i + 2]
         IN  IF \E k \in 1..Len(a) : a[k] \notin accepted THEN UnwrapDiag
             ELSE IF Len(a) < arity THEN IndexDiag
             ELSE NoDiag

\* params, once every token has been parsed
Params == [k \in 1..Len(doc_lines[i + 2]) |-> F32Val[doc_lines[i + 2][k]]]

\* receiver and argument exchanged: m.multiply_matrixes(&transform)
ComposeSwapped(t, m) == MultiplyMatrixes(m, t)

\* transform.multiply_matrixes(&m)
ComposeOnto(t, m) == MultiplyMatrixes(t, m)

\* an elementary transform of the script, recorded in xforms
Elem(op, a) == [op |-> op, a |-> a]

\* a line arm that adds the first end point only
LineArmOnePoint ==
    IF ArgFault(F32Tokens, 6) # NoDiag
    THEN Panicked(i + 1, ArgFault(F32Tokens, 6))
    ELSE LET p == Params IN
        [Keep(i + 2) EXCEPT !.points = AddPoint(points, p[1], p[2], p[3])]

LineArm ==
    IF ArgFault(F32Tokens, 6) # NoDiag
    THEN Panicked(i + 1, ArgFault(F32Tokens, 6))
    ELSE LET p == Params IN
        [Keep(i + 2) EXCEPT
            !.points = AddEdge(points, p[1], p[2], p[3], p[4], p[5], p[6])]

\* an ident arm whose identity() does not reach the accumulated transform
IdentArmNoReset == [Keep(i + 1) EXCEPT !.identAt = Len(xforms)]

IdentArm ==
    [Keep(i + 1) EXCEPT !.transform = Identity(transform),
                        !.identAt = Len(xforms)]

ScaleArm ==
    IF ArgFault(F32Tokens, 3) # NoDiag
    THEN Panicked(i + 1, ArgFault(F32Tokens, 3))
    ELSE LET p == Params IN
        [Keep(i + 2) EXCEPT
            !.transform = ComposeOnto(transform, MakeScale(p[1], p[2], p[3])),
            !.xforms = Append(xforms, Elem("scale", <<p[1], p[2], p[3]>>))]

TranslateArm ==
    IF ArgFault(IntTokens, 3) # NoDiag
    THEN Panicked(i + 1, ArgFault(IntTokens, 3))
    ELSE LET p == Params IN
        [Keep(i + 2) EXCEPT
            !.transform = ComposeOnto(transform, MakeTranslate(p[1], p[2], p[3])),
            !.xforms = Append(xforms, Elem("translate", <<p[1], p[2], p[3]>>))]

RotateArm ==
    IF i + 1 >= Len(doc_lines) THEN Panicked(i + 1, IndexDiag)
    ELSE LET params == doc_lines[i + 2]
             axis == params[1]
             Make(theta) == CASE axis = "x" -> MakeRotX(theta)
                              [] axis = "y" -> MakeRotY(theta)
                              [] axis = "z" -> MakeRotZ(theta)
         IN  IF axis \notin {"x", "y", "z"}
             THEN Panicked(i + 1, InvalidAxisDiag(axis))
             ELSE IF Len(params) < 2 THEN Panicked(i + 1, IndexDiag)
             ELSE IF ~ParsesF32(params[2]) THEN Panicked(i + 1, UnwrapDiag)
             ELSE [Keep(i + 2) EXCEPT
                     !.transform = ComposeOnto(transform, Make(F32Val[params[2]])),
                     !.xforms = Append(xforms,
                                       Elem("rot" \o axis, <<F32Val[params[2]]>>))]

\* an apply arm that resets the transform once the stores are transformed
ApplyArmResets ==
    [Keep(i + 1) EXCEPT
        !.points = IF Len(points) > 0 THEN MultiplyMatrixes(points, transform)
                   ELSE points,
        !.polygons = IF Len(polygons) > 0 THEN MultiplyMatrixes(polygons, transform)
                     ELSE polygons,
        !.transform = Identity(transform)]

ApplyArm ==
    [Keep(i + 1) EXCEPT
        !.points = IF Len(points) > 0 THEN MultiplyMatrixes(points, transform)
                   ELSE points,
        !.polygons = IF Len(polygons) > 0 THEN MultiplyMatrixes(polygons, transform)
                     ELSE polygons]

\* a redraw that draws over what the canvas holds
RedrawNoClear ==
    LET edged == IF Len(points) > 0 THEN DrawLines(screen, points) ELSE screen
    IN  IF Len(polygons) > 0 THEN DrawPolygons(edged, polygons) ELSE edged

\* screen.clear(); draw_lines and draw_polygons of the non-empty stores
Redraw ==
    LET cleared == ClearScreen(screen)
        edged == IF Len(points) > 0 THEN DrawLines(cleared, points) ELSE cleared
    IN  IF Len(polygons) > 0 THEN DrawPolygons(edged, polygons) ELSE edged

DisplayArm ==
    LET scr == Redraw
    IN  [Keep(i + 1) EXCEPT !.screen = scr, !.shown = Append(shown, scr)]

\* the save arm up to the call of create_file, which then writes the file
SaveArm ==
    LET scr == Redraw
    IN  IF i + 1 >= Len(doc_lines)
        THEN [Panicked(i + 1, IndexDiag) EXCEPT !.screen = scr]
        ELSE [Keep(i + 1) EXCEPT !.screen = scr, !.status = "serializing",
                                 !.writing = doc_lines[i + 2]]

\* create_file has written the file and returns; Command::spawn, which
\* starts the converter (spawned) or fails, and the end of the iteration
SaveSpawn(spawned) ==
    LET written == [Keep(i) EXCEPT
                       !.files = (writing :> screen) @@ files,
                       !.writing = NoPath]
    IN  IF spawned
        THEN [written EXCEPT
                !.i = i + 1,
                !.converters = Append(converters, [path |-> writing, st |-> "running"])]
        ELSE [written EXCEPT !.status = "panicked", !.diag = SpawnDiag]

\* a quit arm that goes on to the next line instead of leaving the loop
QuitArmContinue == Keep(i + 1)

QuitArm == [Keep(i) EXCEPT !.status = "exited", !.result = "Ok"]

CircleArm ==
    IF ArgFault(F32Tokens, 4) # NoDiag
    THEN Panicked(i + 1, ArgFault(F32Tokens, 4))
    ELSE LET p == Params IN
        [Keep(i + 2) EXCEPT !.points = AddCircle(points, p[1], p[2], p[3], p[4], 100)]

HermiteArm ==
    IF ArgFault(F32Tokens, 8) # NoDiag
    THEN Panicked(i + 1, ArgFault(F32Tokens, 8))
    ELSE LET p == Params IN
        [Keep(i + 2) EXCEPT
            !.points = AddCurve(points, p[1], p[2], p[3], p[4], p[5], p[6], p[7],
                                p[8], 100, "Hermite")]

BezierArm ==
    IF ArgFault(F32Tokens, 8) # NoDiag
    THEN Panicked(i + 1, ArgFault(F32Tokens, 8))
    ELSE LET p == Params IN
        [Keep(i + 2) EXCEPT
            !.points = AddCurve(points, p[1], p[2], p[3], p[4], p[5], p[6], p[7],
                                p[8], 100, "Bezier")]

\* a comment line falling through to the default arm
CommentArmAsInvalid == Panicked(i, InvalidCommandDiag(doc_lines[i + 1], i + 1))

\* a comment arm after which the cursor is not advanced
CommentArmStuck == Keep(i)

CommentArm == Keep(i + 1)

\* a clear arm that empties the edge store only
ClearArmEdgesOnly == [Keep(i + 1) EXCEPT !.points = MatrixNew(0, 0)]

ClearArm ==
    [Keep(i + 1) EXCEPT !.points = MatrixNew(0, 0), !.polygons = MatrixNew(0, 0)]

\* a box arm that adds the box to the edge store
BoxArmIntoEdges ==
    IF ArgFault(F32Tokens, 6) # NoDiag
    THEN Panicked(i + 1, ArgFault(F32Tokens, 6))
    ELSE LET p == Params IN
        [Keep(i + 2) EXCEPT
            !.points = AddBox(points, p[1], p[2], p[3], p[4], p[5], p[6])]

BoxArm ==
    IF ArgFault(F32Tokens, 6) # NoDiag
    THEN Panicked(i + 1, ArgFault(F32Tokens, 6))
    ELSE LET p == Params IN
        [Keep(i + 2) EXCEPT
            !.polygons = AddBox(polygons, p[1], p[2], p[3], p[4], p[5], p[6])]

SphereArm ==
    IF ArgFault(F32Tokens, 4) # NoDiag
    THEN Panicked(i + 1, ArgFault(F32Tokens, 4))
    ELSE LET p == Params IN
        [Keep(i + 2) EXCEPT
            !.polygons = AddSphere(polygons, p[1], p[2], p[3], p[4], 20)]

TorusArm ==
    IF ArgFault(F32Tokens, 5) # NoDiag
    THEN Panicked(i + 1, ArgFault(F32Tokens, 5))
    ELSE LET p == Params IN
        [Keep(i + 2) EXCEPT
            !.polygons = AddTorus(polygons, p[1], p[2], p[3], p[4], p[5], 20)]

\* a default arm that reports the 0-based cursor as the line number
DefaultArmZeroBased == Panicked(i, InvalidCommandDiag(doc_lines[i + 1], i))

DefaultArm == Panicked(i, InvalidCommandDiag(doc_lines[i + 1], i + 1))

(***************************************************************************)
(* Actions.                                                                *)
(***************************************************************************)
\* main calls parse_file, which opens and reads the script; main drops the
\* io::Result that parse_file returns
OpenScript ==
    /\ status = "start"
    /\ IF scriptFile.exists
       THEN /\ doc_lines' = scriptFile.lines
            /\ status' = "running"
            /\ result' = result
       ELSE /\ doc_lines' = doc_lines
            /\ status' = "exited"
            /\ result' = "Err"
    /\ UNCHANGED <<scriptFile, i, points, polygons, transform, screen, diag,
                   writing, files, converters, shown, lastCmd, xforms, identAt>>

LineCmd == Dispatch(KW("line")) /\ Commit(LineArm)
IdentCmd == Dispatch(KW("ident")) /\ Commit(IdentArm)
ScaleCmd == Dispatch(KW("scale")) /\ Commit(ScaleArm)
TranslateCmd ==
    /\ \E kw \in {KW("translate"), KW("move")} : Dispatch(kw)
    /\ Commit(TranslateArm)
RotateCmd == Dispatch(KW("rotate")) /\ Commit(RotateArm)
ApplyCmd == Dispatch(KW("apply")) /\ Commit(ApplyArm)
DisplayCmd == Dispatch(KW("display")) /\ Commit(DisplayArm)
SaveCmd == Dispatch(KW("save")) /\ Commit(SaveArm)
CreateFileReturn ==
    /\ status = "serializing"
    /\ \E spawned \in BOOLEAN : Commit(SaveSpawn(spawned))
    /\ UNCHANGED lastCmd
QuitCmd == Dispatch(KW("quit")) /\ Commit(QuitArm)
CircleCmd == Dispatch(KW("circle")) /\ Commit(CircleArm)
HermiteCmd == Dispatch(KW("hermite")) /\ Commit(HermiteArm)
BezierCmd == Dispatch(KW("bezier")) /\ Commit(BezierArm)
CommentLine ==
    /\ status = "running"
    /\ i < Len(doc_lines)
    /\ doc_lines[i + 1] \notin ArmsBeforeComment
    /\ StartsWithHash(doc_lines[i + 1])
    /\ lastCmd' = i
    /\ Commit(CommentArm)
ClearCmd == Dispatch(KW("clear")) /\ Commit(ClearArm)
BoxCmd == Dispatch(KW("box")) /\ Commit(BoxArm)
SphereCmd == Dispatch(KW("sphere")) /\ Commit(SphereArm)
TorusCmd == Dispatch(KW("torus")) /\ Commit(TorusArm)
InvalidCmd ==
    /\ status = "running"
    /\ i < Len(doc_lines)
    /\ doc_lines[i + 1] \notin Keywords
    /\ ~StartsWithHash(doc_lines[i + 1])
    /\ lastCmd' = i
    /\ Commit(DefaultArm)

\* the loop condition fails: parse_file returns Ok(())
EndOfScript ==
    /\ status = "running"
    /\ i >= Len(doc_lines)
    /\ status' = "exited"
    /\ result' = "Ok"
    /\ UNCHANGED <<scriptFile, doc_lines, i, points, polygons, transform, screen,
                   diag, writing, files, converters, shown, lastCmd, xforms,
                   identAt>>

\* a converter process, which nothing waits for, ends
ConverterExit ==
    /\ \E k \in 1..Len(converters) :
          /\ converters[k].st = "running"
          /\ converters' = [converters EXCEPT ![k].st = "exited"]
    /\ UNCHANGED <<scriptFile, doc_lines, i, points, polygons, transform, screen,
                   status, result, diag, writing, files, shown, lastCmd, xforms,
                   identAt>>

Next ==
    \/ OpenScript
    \/ LineCmd
    \/ IdentCmd
    \/ ScaleCmd
    \/ TranslateCmd
    \/ RotateCmd
    \/ ApplyCmd
    \/ DisplayCmd
    \/ SaveCmd
    \/ CreateFileReturn
    \/ QuitCmd
    \/ CircleCmd
    \/ HermiteCmd
    \/ BezierCmd
    \/ CommentLine
    \/ ClearCmd
    \/ BoxCmd
    \/ SphereCmd
    \/ TorusCmd
    \/ InvalidCmd
    \/ EndOfScript
    \/ ConverterExit

Spec == Init /\ [][Next]_vars

(***************************************************************************)
(* Vocabulary of the properties.                                           *)
(***************************************************************************)
\* this step is an iteration of the loop of parse_file, at line i
LoopStep == lastCmd' # lastCmd

\* the loop is about to dispatch a line whose text is `line`
AtCommand(line) ==
    status = "running" /\ i < Len(doc_lines) /\ doc_lines[i + 1] = line

\* the latest iteration dispatched a line whose text is `line`
Dispatched(line) == lastCmd >= 0 /\ doc_lines[lastCmd + 1] = line

\* the elementary transforms composed since the latest ident
SinceIdent == SubSeq(xforms, identAt + 1, Len(xforms))

\* an elementary transform applied to a point, by its geometric definition
ApplyElem(e, p) ==
    LET c == CosU(DegToU(e.a[1]))
        s == SinU(DegToU(e.a[1]))
    IN  CASE e.op = "scale" ->
               <<RMul(e.a[1], p[1]), RMul(e.a[2], p[2]), RMul(e.a[3], p[3]), p[4]>>
          [] e.op = "translate" ->
               <<RAdd(p[1], RMul(e.a[1], p[4])), RAdd(p[2], RMul(e.a[2], p[4])),
                 RAdd(p[3], RMul(e.a[3], p[4])), p[4]>>
          [] e.op = "rotx" ->
               <<p[1], RSub(RMul(p[2], c), RMul(p[3], s)),
                 RAdd(RMul(p[2], s), RMul(p[3], c)), p[4]>>
          [] e.op = "roty" ->
               <<RAdd(RMul(p[1], c), RMul(p[3], s)), p[2],
                 RSub(RMul(p[3], c), RMul(p[1], s)), p[4]>>
          [] e.op = "rotz" ->
               <<RSub(RMul(p[1], c), RMul(p[2], s)),
                 RAdd(RMul(p[1], s), RMul(p[2], c)), p[3], p[4]>>

\* the transforms es applied to p one after the other, the first one first
RECURSIVE ApplySeq(_, _)
ApplySeq(es, p) ==
    IF es = <<>> THEN p ELSE ApplySeq(Tail(es), ApplyElem(Head(es), p))

\* a store with every point replaced by its image under es
Transformed(m, es) == [k \in 1..Len(m) |-> ApplySeq(es, m[k])]

\* the origin and the three unit points: two 4x4 matrices that agree on
\* them are equal
ProbePoints ==
    { <<Zero, Zero, Zero, One>>, <<One, Zero, Zero, One>>,
      <<Zero, One, Zero, One>>, <<Zero, Zero, One, One>> }

\* what parse_file and the canvas hold, apart from the cursor
Stores == <<points, polygons, transform, screen>>

(***************************************************************************)
(* C1.  After an ident, an apply replaces every point of the edge store    *)
(* and of the polygon store by Tn(...T2(T1(p))...), where T1 .. Tn are     *)
(* the scale, translate, move and rotate commands since that ident in      *)
(* script order: the first one acts first.                                 *)
(***************************************************************************)
C1_ApplyOrder ==
    [][(LoopStep /\ AtCommand(KW("apply")) /\ identAt >= 0)
         => /\ points' = Transformed(points, SinceIdent)
            /\ polygons' = Transformed(polygons, SinceIdent)]_vars

\* ident; scale 2 2 2; translate 1 2 0; apply has taken the edge
\* (1,0,0)-(3,2,0) to (3,2,0)-(7,6,0)
C1_Witness ==
    /\ Dispatched(KW("apply"))
    /\ i = lastCmd + 1
    /\ identAt >= 0
    /\ SinceIdent = <<Elem("scale", <<Rat(2), Rat(2), Rat(2)>>),
                      Elem("translate", <<Rat(1), Rat(2), Rat(0)>>)>>
    /\ points = << <<Rat(3), Rat(2), Rat(0), One>>, <<Rat(7), Rat(6), Rat(0), One>> >>
    /\ Len(polygons) > 0

(***************************************************************************)
(* C2.  The accumulated transform is the identity at startup: an apply     *)
(* that no ident and no transform command precedes leaves every point of   *)
(* both stores unchanged.                                                  *)
(***************************************************************************)
C2_IdentityAtStartup ==
    [][(LoopStep /\ AtCommand(KW("apply")) /\ identAt < 0 /\ xforms = <<>>)
         => (points' = points /\ polygons' = polygons)]_vars

(***************************************************************************)
(* C3.  After an ident the accumulated transform is the composite of the   *)
(* transform commands since that ident alone, whatever was composed        *)
(* before it (just after the ident it is the identity): it takes every     *)
(* point where those commands, applied in order, take it.                  *)
(***************************************************************************)
C3_IdentResets ==
    identAt >= 0 =>
        \A p \in ProbePoints : MatVec(transform, p) = ApplySeq(SinceIdent, p)

\* transform commands, then ident, then one transform command, then an
\* apply on a non-empty edge store
C3_Witness ==
    /\ identAt > 0
    /\ Len(xforms) = identAt + 1
    /\ Dispatched(KW("apply"))
    /\ i = lastCmd + 1
    /\ Len(points) > 0

(***************************************************************************)
(* C4.  A converter is spawned for a file only after create_file has       *)
(* written it, and no converter is running on a path while create_file is  *)
(* writing that path.                                                      *)
(***************************************************************************)
C4_NoConcurrentFileAccess ==
    \A k \in 1..Len(converters) :
        /\ converters[k].path \in DOMAIN files
        /\ ~(converters[k].st = "running" /\ converters[k].path = writing)

(***************************************************************************)
(* C5.  A line in command position that is no keyword and does not start   *)
(* with '#' ends the run with a panic that names the line's text and its   *)
(* 1-based line number, and nothing of the script is executed after it.    *)
(***************************************************************************)
C5_UnknownCommand ==
    /\ [][(LoopStep /\ status = "running" /\ i < Len(doc_lines)
             /\ doc_lines[i + 1] \notin Keywords
             /\ ~StartsWithHash(doc_lines[i + 1]))
            => /\ status' = "panicked"
               /\ diag'.kind = "InvalidCommand"
               /\ diag'.token = doc_lines[i + 1]
               /\ diag'.line \in 1..Len(doc_lines)
               /\ doc_lines[diag'.line] = diag'.token
               /\ diag'.line = i + 1
               /\ UNCHANGED Stores]_vars
    /\ [][status = "panicked"
            => UNCHANGED <<i, status, result, diag, Stores, writing, files, shown,
                           lastCmd, xforms, identAt>>]_vars

\* an unknown command that is neither the first nor the last line
C5_Witness ==
    /\ status = "panicked"
    /\ diag.kind = "InvalidCommand"
    /\ diag.line > 1
    /\ diag.line < Len(doc_lines)

(***************************************************************************)
(* C6.  An argument line with a non-numeric token, or with fewer or more   *)
(* values than the command takes, ends the run at that command, which is   *)
(* not executed.                                                           *)
(***************************************************************************)
\* the number of values each command takes (specification section 6)
Arity ==
    [kw \in {"line", "scale", "translate", "move", "rotate", "circle", "hermite",
             "bezier", "box", "sphere", "torus"} |->
        CASE kw \in {"line", "box"} -> 6
          [] kw \in {"scale", "translate", "move"} -> 3
          [] kw = "rotate" -> 2
          [] kw \in {"circle", "sphere"} -> 4
          [] kw \in {"hermite", "bezier"} -> 8
          [] kw = "torus" -> 5]

\* the argument line a is malformed for the command kw
Malformed(kw, a) ==
    \/ Len(a) # Arity[kw]
    \/ \E k \in 1..Len(a) : (kw # "rotate" \/ k > 1) /\ ~ParsesF32(a[k])

C6_MalformedArgument ==
    [][\A kw \in DOMAIN Arity :
          (LoopStep /\ AtCommand(KW(kw)) /\ i + 1 < Len(doc_lines)
             /\ Malformed(kw, doc_lines[i + 2]))
            => (status' = "panicked" /\ UNCHANGED Stores)]_vars

(***************************************************************************)
(* C7.  When the script cannot be opened the run ends with a diagnostic,   *)
(* not silently as after a script that was processed.                      *)
(***************************************************************************)
C7_MissingFileDiagnosed ==
    (status \in {"exited", "panicked"} /\ ~scriptFile.exists)
        => (status = "panicked" \/ diag # NoDiag)

(***************************************************************************)
(* C8.  A rotate whose axis is none of x, y, z ends the run with a         *)
(* diagnostic that names the axis token and the line (the rotate line or   *)
(* its argument line, counted from 1), and leaves the transform alone.     *)
(***************************************************************************)
C8_InvalidAxis ==
    [][(LoopStep /\ AtCommand(KW("rotate")) /\ i + 1 < Len(doc_lines)
          /\ doc_lines[i + 2][1] \notin {"x", "y", "z"})
         => /\ status' = "panicked"
            /\ diag'.token = <<doc_lines[i + 2][1]>>
            /\ diag'.line \in {i + 1, i + 2}
            /\ transform' = transform]_vars

(***************************************************************************)
(* C9.  Once quit has been executed the run is over without an error and   *)
(* no later line has an effect: the stores, the transform, the canvas and  *)
(* the cursor stay as they are, no file is written, nothing is presented   *)
(* and no converter is spawned.                                            *)
(***************************************************************************)
C9_QuitStops ==
    /\ [](Dispatched(KW("quit")) => (status = "exited" /\ diag = NoDiag))
    /\ [][Dispatched(KW("quit"))
            => /\ UNCHANGED <<i, status, result, diag, Stores, writing, files,
                              shown, lastCmd, xforms, identAt>>
               /\ Len(converters') = Len(converters)]_vars

\* quit reached with geometry in both stores and, after it, a line that is
\* no command
C9_Witness ==
    /\ Dispatched(KW("quit"))
    /\ status = "exited"
    /\ lastCmd + 1 < Len(doc_lines)
    /\ doc_lines[lastCmd + 2] \notin Keywords
    /\ ~StartsWithHash(doc_lines[lastCmd + 2])
    /\ Len(points) > 0
    /\ Len(polygons) > 0

(***************************************************************************)
(* C10.  As stated: every script line that starts with '#', wherever it    *)
(* stands, is skipped with no effect and no error.                         *)
(***************************************************************************)
\* the keywords whose arm takes the next line as its argument line
ArgKeywords == {KW(kw) : kw \in DOMAIN Arity} \cup {KW("save")}

\* line k (0-based) exists and starts with '#'
HashAt(k) == k < Len(doc_lines) /\ StartsWithHash(doc_lines[k + 1])

C10_EveryHashLineIgnored ==
    [][(LoopStep /\ status = "running" /\ i < Len(doc_lines)
          /\ (HashAt(i) \/ (doc_lines[i + 1] \in ArgKeywords /\ HashAt(i + 1))))
         => (UNCHANGED Stores /\ status' = "running")]_vars

(***************************************************************************)
(* C10, amended.  A line in command position (one that is not taken as     *)
(* the argument line of the command before it) that starts with '#' is     *)
(* skipped: no store, transform, canvas, file or diagnostic changes, and   *)
(* the loop goes on with the line after it.                                *)
(***************************************************************************)
C10_CommentInCommandPosition ==
    [][(LoopStep /\ status = "running" /\ HashAt(i))
         => /\ UNCHANGED <<Stores, status, result, diag, writing, files,
                           converters, shown, xforms, identAt>>
            /\ i' = i + 1]_vars

\* a comment line skipped, with geometry in the stores
C10_Witness ==
    /\ lastCmd >= 0
    /\ StartsWithHash(doc_lines[lastCmd + 1])
    /\ status = "running"
    /\ i = lastCmd + 1
    /\ Len(points) > 0

(***************************************************************************)
(* C11.  clear empties the edge store and the polygon store and leaves     *)
(* the accumulated transform and the canvas as they were; a display or a   *)
(* save dispatched right after a clear leaves no pixel painted.            *)
(***************************************************************************)
\* the lines whose arm redraws the canvas
ShowKeywords == {KW("display"), KW("save")}

C11_ClearEmptiesStores ==
    [][/\ (LoopStep /\ AtCommand(KW("clear")))
            => /\ points' = <<>>
               /\ polygons' = <<>>
               /\ UNCHANGED <<transform, screen, xforms, identAt>>
               /\ status' = "running"
       /\ (LoopStep /\ Dispatched(KW("clear")) /\ i = lastCmd + 1
             /\ \E show \in ShowKeywords : AtCommand(show))
            => screen' = {}]_vars

\* a canvas shown with pixels painted, then clear, then a display that
\* shows an empty canvas, the transform still the one composed before
C11_Witness ==
    /\ Dispatched(KW("display"))
    /\ lastCmd >= 1
    /\ doc_lines[lastCmd] = KW("clear")
    /\ Len(shown) = 2
    /\ shown[1] # {}
    /\ shown[2] = {}
    /\ screen = {}
    /\ points = <<>>
    /\ polygons = <<>>
    /\ transform = MakeScale(Rat(2), Rat(2), Rat(2))

(***************************************************************************)
(* C12.  Every display and every save resets the whole canvas and then     *)
(* draws the two stores as they are: the canvas shown, and the canvas      *)
(* written to the file, is the picture of the current stores alone,        *)
(* whatever was painted before, and with both stores empty it has no       *)
(* painted pixel.                                                          *)
(***************************************************************************)
\* the picture of an edge store and a polygon store on a blank canvas
Picture(edges, triangles) == DrawPolygons(DrawLines({}, edges), triangles)

C12_CanvasFromStoresOnly ==
    [][/\ (LoopStep /\ \E show \in ShowKeywords : AtCommand(show))
            => /\ screen' = Picture(points, polygons)
               /\ (points = <<>> /\ polygons = <<>>) => screen' = {}
               /\ UNCHANGED <<points, polygons>>
               /\ AtCommand(KW("display")) => shown' = Append(shown, screen')
       /\ (status = "serializing" /\ status' # "serializing")
            => /\ writing \in DOMAIN files'
               /\ files'[writing] = Picture(points, polygons)]_vars

\* a canvas shown, the geometry moved by translate and apply, and a save
\* whose file holds the new picture: pixels of the first picture are gone
C12_Witness ==
    /\ Dispatched(KW("save"))
    /\ status = "running"
    /\ Len(shown) = 1
    /\ shown[1] \ screen # {}
    /\ screen \ shown[1] # {}
    /\ FileName \in DOMAIN files
    /\ files[FileName] = screen

(***************************************************************************)
(* C13.  Whatever commands have run, the edge store holds an even number   *)
(* of points (whole segments) and the polygon store a multiple of three    *)
(* (whole triangles).                                                      *)
(***************************************************************************)
C13_WholeSegmentsAndTriangles ==
    /\ Len(points) % 2 = 0
    /\ Len(polygons) % 3 = 0

\* a circle of 100 segments in the edge store and a box of 12 triangles
\* in the polygon store
C13_Witness ==
    /\ Dispatched(KW("box"))
    /\ status = "running"
    /\ Len(points) = 200
    /\ Len(polygons) = 36

(***************************************************************************)
(* C14.  The two stores are independent: line, circle, hermite and bezier  *)
(* change the edge store only; box, sphere and torus change the polygon    *)
(* store only; display and save change neither store; and none of these    *)
(* commands changes the accumulated transform.                             *)
(***************************************************************************)
EdgeKeywords == {KW("line"), KW("circle"), KW("hermite"), KW("bezier")}

PolygonKeywords == {KW("box"), KW("sphere"), KW("torus")}

ThreeNumbersFollow ==
    /\ i + 1 < Len(doc_lines)
    /\ Len(doc_lines[i + 2]) = 3
    /\ \A k \in 1..3 : ParsesF32(doc_lines[i + 2][k])

C15_TranslateAcceptsReals ==
    [][(LoopStep /\ (AtCommand(KW("translate")) \/ AtCommand(KW("move")))
          /\ ThreeNumbersFollow)
         => /\ status' = "running"
            /\ transform' =
                 MultiplyMatrixes(transform,
                     MakeTranslate(F32Val[doc_lines[i + 2][1]],
                                   F32Val[doc_lines[i + 2][2]],
                                   F32Val[doc_lines[i + 2][3]]))]_vars

(***************************************************************************)
(* C16.  Only ident resets the transform: apply, display, save and clear   *)
(* leave it as it is; an apply right after an apply transforms the stores  *)
(* by the same composite again; and a transform command after an apply     *)
(* composes onto the transform the apply used, not onto the identity.      *)
(***************************************************************************)
KeepsTransformKeywords == {KW("apply"), KW("display"), KW("save"), KW("clear")}

TransformKeywords == {KW("scale"), KW("translate"), KW("move"), KW("rotate")}

C16_OnlyIdentResets ==
    [][/\ (LoopStep /\ \E kw \in KeepsTransformKeywords : AtCommand(kw))
            => UNCHANGED <<transform, xforms, identAt>>
       /\ (status = "serializing") => UNCHANGED <<transform, xforms, identAt>>
       /\ (LoopStep /\ AtCommand(KW("apply")) /\ Dispatched(KW("apply"))
             /\ i = lastCmd + 1 /\ identAt >= 0)
            => /\ points' = Transformed(points, SinceIdent)
               /\ polygons' = Transformed(polygons, SinceIdent)
       /\ (LoopStep /\ Dispatched(KW("apply")) /\ i = lastCmd + 1
             /\ identAt >= 0 /\ status' = "running"
             /\ \E kw \in TransformKeywords : AtCommand(kw))
            => /\ Len(xforms') = Len(xforms) + 1
               /\ identAt' = identAt
               /\ \A p \in ProbePoints :
                     MatVec(transform', p) = ApplySeq(SinceIdent', p)]_vars

\* ident; scale 2 2 2; apply; apply has taken the edge (1,0,0)-(3,2,0)
\* to (4,0,0)-(12,8,0), and the transform is still the scaling
C16_Witness ==
    /\ Dispatched(KW("apply"))
    /\ lastCmd >= 1
    /\ doc_lines[lastCmd] = KW("apply")
    /\ identAt >= 0
    /\ SinceIdent = <<Elem("scale", <<Rat(2), Rat(2), Rat(2)>>)>>
    /\ transform = MakeScale(Rat(2), Rat(2), Rat(2))
    /\ points = << <<Rat(4), Rat(0), Rat(0), One>>, <<Rat(12), Rat(8), Rat(0), One>> >>

(***************************************************************************)
(* C17.  A command that takes arguments consumes exactly the line after    *)
(* it: that line is not dispatched as a command, whatever it holds, and    *)
(* the line after it is the next one dispatched; and no script line is     *)
(* read at an index that is not below the number of lines, also when such  *)
(* a command is the last line of the script.                               *)
(***************************************************************************)
C17_ArgumentLineConsumed ==
    [][/\ LoopStep => lastCmd' = i
       /\ (LoopStep /\ \E kw \in ArgKeywords : AtCommand(kw))
            => /\ status' = "running" => i' = i + 2
               /\ status' = "serializing"
                    => (i' = i + 1 /\ writing' = doc_lines[i + 2])
               \* the cursor of an aborted arm is the index it read at
               /\ status' = "panicked" => i' < Len(doc_lines)
       /\ (status = "serializing" /\ status' = "running") => i' = i + 1]_vars

(***************************************************************************)
(* C18.  A command that ends the run with an error has changed nothing:    *)
(* in the step that aborts the run the stores, the transform and the       *)
(* canvas keep the values the last successful command left.                *)
(***************************************************************************)
C18_FailingCommandChangesNothing ==
    [][(LoopStep /\ status' = "panicked") => UNCHANGED Stores]_vars

(***************************************************************************)
(* C19.  The run of every script ends.  In finite-run form: the cursor     *)
(* never moves back and never passes the end of the script; an iteration   *)
(* after which the loop goes on has moved the cursor forward, so a script  *)
(* of n lines allows at most n iterations; a run that has ended stays      *)
(* ended; and no step of the loop depends on a converter: a converter      *)
(* that finishes changes nothing else, and the run ends while converters   *)
(* are still running.                                                      *)
(***************************************************************************)
Ended == status \in {"exited", "panicked"}

C19_RunEnds ==
    [][/\ i' >= i
       /\ i' <= Len(doc_lines')
       /\ (LoopStep /\ ~Ended') => i' > i
       /\ (status = "serializing" /\ status' # "serializing")
            => (Ended' \/ (status' = "running" /\ i' > i))
       /\ Ended => UNCHANGED <<i, status, result, lastCmd, Stores>>
       /\ (Len(converters') = Len(converters) /\ converters' # converters)
            => UNCHANGED <<i, status, result, lastCmd, Stores, files>>]_vars

\* a run that has ended at the end of its script while a converter it
\* spawned is still running
C19_Witness ==
    /\ status = "exited"
    /\ result = "Ok"
    /\ i = Len(doc_lines)
    /\ Len(converters) > 0
    /\ \A k \in 1..Len(converters) : converters[k].st = "running"

====
